---- MODULE Spec2Model ----
(***************************************************************************)
(* Recipe API: recipes, tags and the recipe<->tag many-to-many relation.   *)
(*                                                                         *)
(* The database is a set of Tag rows and a set of Recipe rows; a recipe    *)
(* row carries its many-to-many sets.  Two specifications share the state: *)
(*   Spec      every HTTP handler runs to completion as one action (any    *)
(*             sequence of API operations by any users);                   *)
(*   SpecConc  recipe create/update handlers of several clients run one    *)
(*             database statement at a time (autocommit), interleaved.     *)
(***************************************************************************)
EXTENDS Integers, Sequences, FiniteSets, TLC

\* ---------------------------------------------------------------- bounds
MaxTagId == 2
MaxRecipeId == 1

Users == {"A", "B"}
Clients == {1, 2}
Titles == {"Soup", "Stew"}
\* Names in ascending lexicographic order; Rank is the collation order_by uses.
NameOrder == <<"Basil", "Kale">>
Names == {NameOrder[i] : i \in DOMAIN NameOrder}
Rank(n) == CHOOSE i \in DOMAIN NameOrder : NameOrder[i] = n

Range(s) == {s[i] : i \in DOMAIN s}
\* Tag lists of a request body: empty, single, two names, a repeated name.
NameSeqs == {<<>>, <<"Kale">>, <<"Basil">>, <<"Kale", "Basil">>, <<"Kale", "Kale">>}

\* A payload key that may be absent: given = FALSE models "key omitted"
\* (validated_data.pop('tags', None) yields None).
Omitted == [given |-> FALSE, names |-> <<>>]
Given(s) == [given |-> TRUE, names |-> s]
TagPayloads == {Omitted} \cup {Given(s) : s \in NameSeqs}
IngredientPayloads == {Omitted, Given(<<"Kale", "Basil">>)}
NoTitle == "-"
TitlePayloads == Titles \cup {NoTitle}
\* Request bodies of POST/PATCH /recipes: each key present or absent.
Payload(t, tp, ip) == [title |-> t, tags |-> tp, ingredients |-> ip]
CreatePayloads ==
    {Payload(t, tp, Omitted) : t \in Titles, tp \in TagPayloads}
UpdatePayloads ==
    {Payload(NoTitle, tp, Omitted) : tp \in TagPayloads}
    \cup {Payload(t, tp, Omitted) : t \in Titles, tp \in {Omitted, Given(<<>>)}}
    \cup {Payload(NoTitle, Omitted, ip) : ip \in IngredientPayloads}

VARIABLES
    tags,          \* Tag rows: [id, user, name]
    ingredients,   \* Ingredient rows: [id, user, name]
    recipes,       \* Recipe rows: [id, user, title, tags, ingredients]
    nextTagId,     \* autoincrement of the tag table
    nextRecipeId,  \* autoincrement of the recipe table
    resp,          \* the last request served and its response
    req            \* per client: the request in flight (SpecConc)

vars == <<tags, ingredients, recipes, nextTagId, nextRecipeId, resp, req>>
db == <<tags, ingredients, recipes, nextTagId, nextRecipeId>>

\* ---------------------------------------------------------------- store
TagRow(i, u, n) == [id |-> i, user |-> u, name |-> n]
RecipeRow(i, u, t) == [id |-> i, user |-> u, title |-> t, tags |-> {}, ingredients |-> {}]

\* Variant: a tag table with no uniqueness constraint.
UniqueViolationOff(ts, u, n, self) == FALSE
\* Store-level uniqueness of (user, name) on the tag table: would writing
\* (u, n) into the row with id self collide with another row?
UniqueViolation(ts, u, n, self) ==
    \E t \in ts : t.user = u /\ t.name = n /\ t.id # self

\* Tag.objects.get(user=auth_user, name=...) of get_or_create: the matching rows.
FindTag(ts, u, n) == {t \in ts : t.user = u /\ t.name = n}

\* recipe.tags.add(tag_obj) / instance.tags.clear() on the row with id rid.
M2MAdd(rs, rid, tid) ==
    {IF r.id = rid THEN [r EXCEPT !.tags = @ \cup {tid}] ELSE r : r \in rs}
M2MClear(rs, rid) ==
    {IF r.id = rid THEN [r EXCEPT !.tags = {}] ELSE r : r \in rs}

\* Variants: the querysets without filter(user=self.request.user).
RecipeQuerysetAll(u) == recipes
TagQuerysetAll(u) == tags
\* The queryset of each viewset, scoped to the authenticated user.
RecipeQueryset(u) == {r \in recipes : r.user = u}
TagQueryset(u) == {t \in tags : t.user = u}

ById(r) == r.id
ByName(t) == Rank(t.name)

RECURSIVE OrderByIdDesc(_)
\* order_by('-id'): the ids of rows S, largest id first.
OrderByIdDesc(S) ==
    IF S = {} THEN <<>>
    ELSE LET m == CHOOSE x \in S : \A y \in S : ById(y) <= ById(x)
         IN <<m.id>> \o OrderByIdDesc(S \ {m})

RECURSIVE OrderByNameDesc(_)
\* order_by('-name'): the ids of rows S, largest name first.
OrderByNameDesc(S) ==
    IF S = {} THEN <<>>
    ELSE LET m == CHOOSE x \in S : \A y \in S : ByName(y) <= ByName(x)
         IN <<m.id>> \o OrderByNameDesc(S \ {m})

Row(S, i) == CHOOSE x \in S : x.id = i
Ids(S) == {x.id : x \in S}
\* The names a read of recipe rid shows, on rows rs and tag rows ts.
TagNames(rs, ts, rid) == {t.name : t \in {x \in ts : x.id \in Row(rs, rid).tags}}
IngredientNames(rs, is, rid) ==
    {i.name : i \in {x \in is : x.id \in Row(rs, rid).ingredients}}

\* ---------------------------------------------------------------- serializer
RECURSIVE GetOrCreateTags(_, _, _, _, _, _)
\* RecipeSerializer.get_or_create_tags run to completion on (ts, rs, nid):
\* for each payload name, get the auth user's tag or create it, then link it.
\* get() finding several rows raises MultipleObjectsReturned: the loop stops
\* there and what was written so far stays written (autocommit).  With no
\* other request in flight a create after an empty get cannot conflict.
GetOrCreateTags(names, u, rid, ts, rs, nid) ==
    IF names = <<>> THEN [ok |-> TRUE, tags |-> ts, recipes |-> rs, next |-> nid]
    ELSE LET n == Head(names)
             found == FindTag(ts, u, n)
         IN IF Cardinality(found) > 1
            THEN [ok |-> FALSE, tags |-> ts, recipes |-> rs, next |-> nid]
            ELSE IF found # {}
            THEN GetOrCreateTags(Tail(names), u, rid, ts,
                                 M2MAdd(rs, rid, (CHOOSE t \in found : TRUE).id), nid)
            ELSE GetOrCreateTags(Tail(names), u, rid, ts \cup {TagRow(nid, u, n)},
                                 M2MAdd(rs, rid, nid), nid + 1)

\* Variant: `if tags:`, which an empty list fails.
ReplacesTagsIfTruthy(p) == p.given /\ p.names # <<>>
\* `if tags is not None` of RecipeSerializer.update.
ReplacesTags(p) == p.given

\* setattr + instance.save(): the scalar fields present in the payload.
SaveFields(rs, rid, base, title) ==
    {IF r.id = rid THEN [r EXCEPT !.title = IF title = NoTitle THEN base ELSE title]
     ELSE r : r \in rs}

\* ---------------------------------------------------------------- responses
\* resp records the last request and its response: the operation, the user,
\* the status, and for the operations the properties speak of, the target id,
\* the payload, the target's tag set before the request and the listed ids.
\* A response no property speaks of keeps the operation and the status only
\* (user "A" and id 0 stand for "not recorded").
NoResp == [op |-> "none", user |-> "A", id |-> 0, status |-> 0,
           tags |-> Omitted, ingredients |-> Omitted, assigned |-> FALSE,
           pre |-> {}, body |-> <<>>, raced |-> FALSE]
Resp(op, u, i, st) == [NoResp EXCEPT !.op = op, !.user = u, !.id = i, !.status = st]

\* A request in flight: where its handler stands (pc), the authenticated
\* user, the recipe, the tag names still to resolve, the title of the body,
\* the instance's title as loaded by get_object (base), the tag just
\* resolved (cur), and whether a create of it hit the uniqueness constraint.
Idle == [pc |-> "idle", kind |-> "none", user |-> "A", rid |-> 0, names |-> <<>>,
         title |-> NoTitle, base |-> NoTitle, cur |-> 0, raced |-> FALSE]

Init ==
    /\ tags = {}
    /\ ingredients = {}
    /\ recipes = {}
    /\ nextTagId = 1
    /\ nextRecipeId = 1
    /\ resp = NoResp
    /\ req = [c \in Clients |-> Idle]

\* ---------------------------------------------------------------- handlers (Spec)
\* POST /recipes: perform_create saves with user = request.user, then
\* RecipeSerializer.create links the tags.  An 'ingredients' key is not a
\* field of the serializer and is dropped.
CreateRecipe(u, p) ==
    /\ nextRecipeId <= MaxRecipeId
    /\ LET rid == nextRecipeId
           title == p.title
           tp == p.tags
           res == GetOrCreateTags(tp.names, u, rid, tags,
                                  recipes \cup {RecipeRow(rid, u, title)}, nextTagId)
       IN /\ res.next <= MaxTagId + 1
          /\ tags' = res.tags
          /\ recipes' = res.recipes
          /\ nextTagId' = res.next
          /\ nextRecipeId' = rid + 1
          /\ resp' = Resp("create", u, rid, IF res.ok THEN 201 ELSE 500)
    /\ UNCHANGED <<ingredients, req>>

\* RecipeSerializer.update on the instance with id rid, then the 200 (or the
\* 500 of an exception that left the handler).
PerformUpdate(u, rid, p) ==
    LET inst == Row(recipes, rid)
        res == IF ReplacesTags(p.tags)
               THEN GetOrCreateTags(p.tags.names, u, rid, tags,
                                    M2MClear(recipes, rid), nextTagId)
               ELSE [ok |-> TRUE, tags |-> tags, recipes |-> recipes, next |-> nextTagId]
    IN /\ res.next <= MaxTagId + 1
       /\ tags' = res.tags
       /\ nextTagId' = res.next
       /\ recipes' = IF res.ok
                     THEN SaveFields(res.recipes, rid, inst.title, p.title)
                     ELSE res.recipes
       /\ resp' = [Resp("update", u, rid, IF res.ok THEN 200 ELSE 500)
                     EXCEPT !.tags = p.tags, !.ingredients = p.ingredients,
                            !.pre = IF p.tags.names = <<>> THEN inst.tags ELSE {}]

\* PATCH /recipes/{id}: get_object on the user's queryset (404 when the id is
\* not in it), then RecipeSerializer.update with the request body.
UpdateRecipe(u, rid) ==
    /\ IF rid \notin Ids(RecipeQueryset(u))
       THEN /\ resp' = Resp("update", u, rid, 404)
            /\ UNCHANGED <<tags, recipes, nextTagId>>
       ELSE \E p \in UpdatePayloads : PerformUpdate(u, rid, p)
    /\ UNCHANGED <<ingredients, nextRecipeId, req>>

\* Variant: deleting a recipe deletes the tags linked to it too.
DestroyRecipeCascade(u, rid) ==
    /\ IF rid \notin Ids(RecipeQueryset(u))
       THEN /\ resp' = Resp("destroy", "A", 0, 404)
            /\ UNCHANGED <<tags, recipes>>
       ELSE /\ recipes' = {r \in recipes : r.id # rid}
            /\ tags' = {t \in tags : t.id \notin Row(recipes, rid).tags}
            /\ resp' = [Resp("destroy", u, 0, 204) EXCEPT !.pre = Row(recipes, rid).tags]
    /\ UNCHANGED <<ingredients, nextTagId, nextRecipeId, req>>

\* DELETE /recipes/{id}: the recipe row and its link rows go, nothing else.
DestroyRecipe(u, rid) ==
    /\ IF rid \notin Ids(RecipeQueryset(u))
       THEN /\ resp' = Resp("destroy", "A", 0, 404)
            /\ UNCHANGED <<tags, recipes>>
       ELSE /\ recipes' = {r \in recipes : r.id # rid}
            /\ tags' = tags
            /\ resp' = [Resp("destroy", u, 0, 204) EXCEPT !.pre = Row(recipes, rid).tags]
    /\ UNCHANGED <<ingredients, nextTagId, nextRecipeId, req>>

\* GET /recipes: the user's recipes, newest id first.
ListRecipes(u) ==
    /\ resp' = [Resp("list_recipes", u, 0, 200)
                  EXCEPT !.body = OrderByIdDesc(RecipeQueryset(u))]
    /\ UNCHANGED <<db, req>>

\* GET /tags[?assigned_only=0|1]: get_queryset never reads the query
\* parameter; the user's tags, name descending.
ListTags(u, assigned) ==
    /\ resp' = [Resp("list_tags", u, 0, 200)
                  EXCEPT !.assigned = assigned,
                         !.body = OrderByNameDesc(TagQueryset(u))]
    /\ UNCHANGED <<db, req>>

\* PATCH /tags/{id} {name}: get_object on the user's queryset, then the
\* rename, which the store refuses when the user has the name already.
UpdateTag(u, tid) ==
    /\ IF tid \notin Ids(TagQueryset(u))
       THEN /\ resp' = Resp("update_tag", "A", 0, 404)
            /\ tags' = tags
       ELSE \E n \in Names :
              IF UniqueViolation(tags, u, n, tid)
              THEN /\ resp' = Resp("update_tag", "A", 0, 500)
                   /\ tags' = tags
              ELSE /\ tags' = {IF t.id = tid THEN [t EXCEPT !.name = n] ELSE t : t \in tags}
                   /\ resp' = Resp("update_tag", "A", 0, 200)
    /\ UNCHANGED <<ingredients, recipes, nextTagId, nextRecipeId, req>>

\* DELETE /tags/{id}: the tag row and its link rows go.
DestroyTag(u, tid) ==
    /\ IF tid \notin Ids(TagQueryset(u))
       THEN /\ resp' = Resp("destroy_tag", "A", 0, 404)
            /\ UNCHANGED <<tags, recipes>>
       ELSE /\ tags' = {t \in tags : t.id # tid}
            /\ recipes' = {[r EXCEPT !.tags = @ \ {tid}] : r \in recipes}
            /\ resp' = Resp("destroy_tag", u, tid, 204)
    /\ UNCHANGED <<ingredients, nextTagId, nextRecipeId, req>>

Next ==
    \/ \E u \in Users, p \in CreatePayloads : CreateRecipe(u, p)
    \/ \E u \in Users, rid \in 1..MaxRecipeId : UpdateRecipe(u, rid)
    \/ \E u \in Users, rid \in 1..MaxRecipeId : DestroyRecipe(u, rid)
    \/ \E u \in Users : ListRecipes(u)
    \/ \E u \in Users, a \in BOOLEAN : ListTags(u, a)
    \/ \E u \in Users, tid \in 1..MaxTagId : UpdateTag(u, tid)
    \/ \E u \in Users, tid \in 1..MaxTagId : DestroyTag(u, tid)

Spec == Init /\ [][Next]_vars

\* ---------------------------------------------------------------- handlers, statement by statement (SpecConc)
\* Request bodies of the interleaved handlers.
ConcTagPayloads == {Omitted, Given(<<>>), Given(<<"Kale">>), Given(<<"Kale", "Basil">>)}
ConcCreatePayloads == {Payload("Soup", tp, Omitted) : tp \in ConcTagPayloads}
ConcUpdatePayloads == {Payload(NoTitle, tp, Omitted) : tp \in ConcTagPayloads}

\* Variant: a plain create after the get, whose IntegrityError leaves the handler.
OnConflictRaise == "raise"
\* What get_or_create does when its create hits the uniqueness constraint:
\* the IntegrityError is caught and the row is got again.
OnConflict == "reget"

Busy(c) == req[c].pc # "idle"
\* A request goes to the first free worker.
Free(c) == ~Busy(c) /\ \A d \in Clients : d < c => Busy(d)

\* The handler of client c returns: c is idle again; resp keeps the status
\* of a failed request, and whether any request so far has recovered from
\* hitting the uniqueness constraint.
Finish(c, status) ==
    /\ req' = [req EXCEPT ![c] = Idle]
    /\ resp' = [resp EXCEPT !.status = IF status = 500 THEN 500 ELSE @,
                            !.raced = @ \/ (req[c].raced /\ status # 500)]

\* After the last statement on the tags: create returns, update saves.
AfterTags(c, r) ==
    IF r.names # <<>> THEN req' = [req EXCEPT ![c] = [r EXCEPT !.pc = "get"]] /\ resp' = resp
    ELSE IF r.kind = "update" THEN req' = [req EXCEPT ![c] = [r EXCEPT !.pc = "save"]] /\ resp' = resp
    ELSE Finish(c, 201)

\* POST /recipes: Recipe.objects.create(user=request.user, ...).
StartCreate(c, u, p) ==
    /\ Free(c)
    /\ nextRecipeId <= MaxRecipeId
    /\ recipes' = recipes \cup {RecipeRow(nextRecipeId, u, p.title)}
    /\ nextRecipeId' = nextRecipeId + 1
    /\ req' = [req EXCEPT ![c] =
                 IF p.tags.names = <<>> THEN Idle
                 ELSE [Idle EXCEPT !.pc = "get", !.kind = "create", !.user = u,
                                   !.rid = nextRecipeId, !.names = p.tags.names]]
    /\ UNCHANGED <<tags, ingredients, nextTagId, resp>>

\* PATCH /recipes/{id}: get_object on the user's queryset loads the instance.
StartUpdate(c, u, rid) ==
    /\ Free(c)
    /\ IF rid \notin Ids(RecipeQueryset(u))
       THEN req' = [req EXCEPT ![c] = Idle]
       ELSE \E p \in ConcUpdatePayloads :
              req' = [req EXCEPT ![c] =
                        [Idle EXCEPT !.pc = IF ReplacesTags(p.tags) THEN "clear" ELSE "save",
                                     !.kind = "update", !.user = u, !.rid = rid,
                                     !.names = p.tags.names,
                                     !.title = p.title,
                                     !.base = Row(recipes, rid).title]]
    /\ UNCHANGED <<db, resp>>

\* instance.tags.clear()
Clear(c) ==
    /\ req[c].pc = "clear"
    /\ recipes' = M2MClear(recipes, req[c].rid)
    /\ req' = [req EXCEPT ![c].pc = IF req[c].names # <<>> THEN "get" ELSE "save"]
    /\ UNCHANGED <<tags, ingredients, nextTagId, nextRecipeId, resp>>

\* get_or_create, first statement: get(user=auth_user, name=...).
Get(c) ==
    /\ req[c].pc = "get"
    /\ LET found == FindTag(tags, req[c].user, Head(req[c].names))
       IN IF Cardinality(found) > 1 THEN Finish(c, 500)
          ELSE IF found # {}
          THEN /\ req' = [req EXCEPT ![c].pc = "add",
                                     ![c].cur = (CHOOSE t \in found : TRUE).id]
               /\ resp' = resp
          ELSE req' = [req EXCEPT ![c].pc = "create"] /\ resp' = resp
    /\ UNCHANGED db

\* get_or_create, after DoesNotExist: create(user=auth_user, name=...); the
\* store refuses a second (user, name).
Create(c) ==
    /\ req[c].pc = "create"
    /\ LET u == req[c].user
           n == Head(req[c].names)
       IN IF UniqueViolation(tags, u, n, nextTagId)
          THEN /\ IF OnConflict = "reget"
                  THEN req' = [req EXCEPT ![c].pc = "reget", ![c].raced = TRUE]
                       /\ resp' = resp
                  ELSE Finish(c, 500)
               /\ UNCHANGED <<tags, nextTagId>>
          ELSE /\ nextTagId <= MaxTagId
               /\ tags' = tags \cup {TagRow(nextTagId, u, n)}
               /\ nextTagId' = nextTagId + 1
               /\ req' = [req EXCEPT ![c].pc = "add", ![c].cur = nextTagId]
               /\ resp' = resp
    /\ UNCHANGED <<ingredients, recipes, nextRecipeId>>

\* get_or_create, after IntegrityError: get again; DoesNotExist re-raises.
Reget(c) ==
    /\ req[c].pc = "reget"
    /\ LET found == FindTag(tags, req[c].user, Head(req[c].names))
       IN IF Cardinality(found) # 1 THEN Finish(c, 500)
          ELSE /\ req' = [req EXCEPT ![c].pc = "add",
                                     ![c].cur = (CHOOSE t \in found : TRUE).id]
               /\ resp' = resp
    /\ UNCHANGED db

\* recipe.tags.add(tag_obj)
Add(c) ==
    /\ req[c].pc = "add"
    /\ recipes' = M2MAdd(recipes, req[c].rid, req[c].cur)
    /\ AfterTags(c, [req[c] EXCEPT !.names = Tail(@), !.cur = 0])
    /\ UNCHANGED <<tags, ingredients, nextTagId, nextRecipeId>>

\* setattr(...) and instance.save(): the instance as loaded, with the body's fields.
Save(c) ==
    /\ req[c].pc = "save"
    /\ recipes' = SaveFields(recipes, req[c].rid, req[c].base, req[c].title)
    /\ Finish(c, 200)
    /\ UNCHANGED <<tags, ingredients, nextTagId, nextRecipeId>>

NextConc ==
    \E c \in Clients :
        \/ \E u \in Users, p \in ConcCreatePayloads : StartCreate(c, u, p)
        \/ \E u \in Users, rid \in 1..MaxRecipeId : StartUpdate(c, u, rid)
        \/ Clear(c)
        \/ Get(c)
        \/ Create(c)
        \/ Reget(c)
        \/ Add(c)
        \/ Save(c)

SpecConc == Init /\ [][NextConc]_vars

\* ---------------------------------------------------------------- properties

\* C1: when recipe create/update requests of one owner race to resolve the
\* same new tag name, no request fails (no 500 is ever returned), no two rows
\* with one (user, name) ever exist, and a request that has resolved a name
\* holds the single row of (user, name).
C1_OneRowNoFailure ==
    /\ resp.status # 500
    /\ \A u \in Users, n \in Names :
          Cardinality({t \in tags : t.user = u /\ t.name = n}) <= 1
    /\ \A c \in Clients :
          req[c].pc = "add" =>
             {t.id : t \in {x \in tags : x.user = req[c].user
                                          /\ x.name = Head(req[c].names)}}
                = {req[c].cur}

\* Two requests have raced on a name, the loser recovered, every request has
\* returned, and the name has one row.
C1_Witness ==
    /\ \A c \in Clients : ~Busy(c)
    /\ resp.raced
    /\ resp.status # 500
    /\ \E u \in Users, n \in Names :
          Cardinality({t \in tags : t.user = u /\ t.name = n}) = 1

\* C2: in every state reachable by API operations no two Tag rows have the
\* same (user, name).
C2_UniqueUserName ==
    \A t1, t2 \in tags : (t1.user = t2.user /\ t1.name = t2.name) => t1.id = t2.id

\* A rename onto a name the user already has was refused; the user has two tags.
C2_Witness ==
    /\ resp.op = "update_tag" /\ resp.status = 500
    /\ \E t1, t2 \in tags : t1.user = t2.user /\ t1.id # t2.id

\* C3: after a successful update of a recipe by its owner, tags = [] in the
\* body leaves the recipe with no tags, and a body without the tags key
\* leaves the recipe's tag set as it was before the update.
C3_EmptyClearsOmittedKeeps ==
    (resp.op = "update" /\ resp.status = 200) =>
        /\ (resp.tags = Given(<<>>) => Row(recipes, resp.id).tags = {})
        /\ (~resp.tags.given => Row(recipes, resp.id).tags = resp.pre)

\* A recipe that had tags was updated with tags = [] and has none now.
C3_Witness ==
    /\ resp.op = "update" /\ resp.status = 200
    /\ resp.tags = Given(<<>>)
    /\ resp.pre # {}
    /\ Row(recipes, resp.id).tags = {}

\* A recipe that had tags was updated without the tags key and kept them.
C3_WitnessOmitted ==
    /\ resp.op = "update" /\ resp.status = 200
    /\ ~resp.tags.given
    /\ resp.pre # {}
    /\ Row(recipes, resp.id).tags = resp.pre

\* C4: GET /tags?assigned_only=1 returns exactly the user's tags attached to
\* at least one recipe of the user, each once.
C4_AssignedOnly ==
    (resp.op = "list_tags" /\ resp.assigned) =>
        /\ Range(resp.body) =
              {t.id : t \in {x \in tags : x.user = resp.user
                               /\ \E r \in recipes : r.user = resp.user /\ x.id \in r.tags}}
        /\ Len(resp.body) = Cardinality(Range(resp.body))

\* C5: a listing requested by a user holds no recipe or tag of another
\* user, and the unfiltered listings hold every recipe and tag of the user.
C5_ListingsScoped ==
    /\ resp.op = "list_tags" =>
          /\ Range(resp.body) \subseteq {t.id : t \in {x \in tags : x.user = resp.user}}
          /\ ~resp.assigned =>
                Range(resp.body) = {t.id : t \in {x \in tags : x.user = resp.user}}
    /\ resp.op = "list_recipes" =>
          Range(resp.body) = {r.id : r \in {x \in recipes : x.user = resp.user}}

\* A user lists tags while another user owns tags.
C5_Witness ==
    /\ resp.op = "list_tags"
    /\ \E t \in tags : t.user # resp.user
    /\ \A i \in Range(resp.body) : \E t \in tags : t.id = i /\ t.user = resp.user

C7_ForeignUpdateRejected ==
    [][(resp'.op = "update"
         /\ \E r \in recipes : r.id = resp'.id /\ r.user # resp'.user)
        => (resp'.status = 404 /\ recipes' = recipes /\ tags' = tags)]_vars

\* A user's PATCH on another user's recipe was answered 404.
C7_Witness ==
    /\ resp.op = "update" /\ resp.status = 404
    /\ \E r \in recipes : r.id = resp.id /\ r.user # resp.user

\* C8: a successful PATCH with ingredients [Kale, Basil] leaves the recipe
\* with exactly the 2 ingredients Kale and Basil of its owner.
C8_IngredientsGetOrCreate ==
    (resp.op = "update" /\ resp.status = 200 /\ resp.ingredients.given) =>
        /\ Cardinality(Row(recipes, resp.id).ingredients) = 2
        /\ IngredientNames(recipes, ingredients, resp.id) = Range(resp.ingredients.names)

\* C9 as stated: deleting a recipe, or a recipe update that gives the tags
\* key, leaves the set of Tag rows unchanged.
C9_TagRowsUnchanged ==
    [][(resp'.op = "destroy" \/ (resp'.op = "update" /\ resp'.tags.given))
        => tags' = tags]_vars

\* C9 amended: a Tag row is removed only by a DELETE /tags/{id} of its
\* owner; deleting a recipe leaves the Tag rows unchanged; a recipe update
\* removes and alters no Tag row (it may add rows for names the user did not
\* have) and leaves the Tag rows unchanged when its tag list is empty or
\* absent.
C9_TagRowsRemovedOnlyByOwnerDelete ==
    [][/\ (Ids(tags) \ Ids(tags') # {}) =>
            /\ resp'.op = "destroy_tag" /\ resp'.status = 204
            /\ Ids(tags) \ Ids(tags') = {resp'.id}
            /\ Row(tags, resp'.id).user = resp'.user
       /\ resp'.op = "destroy" => tags' = tags
       /\ resp'.op = "update" =>
            /\ tags \subseteq tags'
            /\ resp'.tags.names = <<>> => tags' = tags]_vars

\* A recipe that had tags was deleted and its tags are still rows.
C9_Witness ==
    /\ resp.op = "destroy" /\ resp.status = 204
    /\ resp.pre # {}
    /\ resp.pre \subseteq Ids(tags)

\* C10: the first write of a tag-replacing update that runs alone (clear)
\* leaves a reader of the recipe with the tag names from before the update
\* or with the names of the request body, never with anything else.
C10_AtomicReplace ==
    [][\A c \in Clients :
         (req[c].pc = "clear" /\ req'[c].pc # "clear"
            /\ \A d \in Clients \ {c} : ~Busy(d))
         => TagNames(recipes', tags', req[c].rid)
              \in {TagNames(recipes, tags, req[c].rid), Range(req[c].names)}]_vars

====
